---------------------------- MODULE Spec2Model ----------------------------
(***************************************************************************)
(* Model of the Moog ladder filter plugin of src/src/lib.rs.               *)
(*                                                                         *)
(* Numbers.  The program computes in f32.  The model computes in signed    *)
(* fixed point with One units per 1.0, every product and quotient rounded  *)
(* to the nearest unit (f32 rounds to nearest as well, with a relative     *)
(* instead of an absolute step).  exp and tanh are evaluated, not assumed: *)
(* exp by its power series, tanh from exp.  f32 tanh returns exactly 1.0   *)
(* once its argument passes about 9.011 (1 - tanh(x) is then below half an *)
(* ulp of 1.0); TanhFx returns exactly One from the same argument on and   *)
(* stays below One before it.                                              *)
(*                                                                         *)
(* Frequencies (cutoff, sample rate) are whole Hz.  The parameter          *)
(* smoothers of nih_plug are outside src/: the value a smoother hands out  *)
(* is modelled as the parameter's current value, which the host may change *)
(* at any moment.                                                          *)
(***************************************************************************)
EXTENDS Integers, Sequences, FiniteSets

VARIABLES
    params,        \* FilterParams: the values the host has set
    prev_outputs,  \* the four stage outputs
    prev_w,        \* the three cached saturated stage values
    g,             \* the integrator gain field
    phase,         \* "constructed", "active" or "inactive"
    channels,      \* channels of the negotiated layout
    sample_rate,   \* sample rate of the stream, Hz
    pc,            \* position of process: "idle", "s1", "s2", "s3", "s4"
    ch,            \* channel of the frame being processed
    loc,           \* the locals of one frame (lines 173-187)
    buf,           \* the samples of the frame, overwritten in place
    input,         \* the local `input` of the sample being processed
    pre,           \* history: state at the start of the current sample
    raw,           \* history: the sample as it was before process wrote it
    n,             \* history: samples processed
    ev,            \* history: calls of initialize and parameter writes
    silent,        \* history: every sample so far was zero
    reinit,        \* history: re-activated and no sample processed since
    twin,          \* a second filter instance fed the same samples
    twin_buf,      \* the frame as the second instance writes it
    iso,           \* history: only 2-pole samples since the start
    last4,         \* history: state as the last 4-pole sample left it
    stale,         \* history: a 2-pole sample came after the last 4-pole one
    ind,           \* per channel: a filter fed this channel's samples only
    ind_buf        \* the frame as the per-channel filters write it

vars == <<params, prev_outputs, prev_w, g, phase, channels, sample_rate, pc,
          ch, loc, buf, input, pre, raw, n, ev, silent, reinit, twin,
          twin_buf, iso, last4, stale, ind, ind_buf>>

(***************************************************************************)
(* Fixed-point arithmetic                                                  *)
(***************************************************************************)
One == 10000

Abs(x) == IF x < 0 THEN -x ELSE x

Sgn(x) == IF x < 0 THEN -1 ELSE 1

\* a / b for integers a >= 0, b > 0, rounded to nearest
DivRound(a, b) == (a + b \div 2) \div b

\* |a| * |b| / One rounded to nearest, split so that no intermediate
\* product leaves 32 bits (needs |b| < 21 * One)
MulMag(a, b) == (a \div One) * b + ((a % One) * b + One \div 2) \div One

\* f32 `a * b`
Mul(a, b) == Sgn(a) * Sgn(b) * MulMag(Abs(a), Abs(b))

\* number of terms of the power series of exp
ExpTerms == 8

\* 1 - t/k * (1 - t/(k+1) * ( ... )), the tail of the series of exp(-t)
RECURSIVE ExpSeries(_, _)
ExpSeries(t, k) ==
    IF k > ExpTerms THEN One
    ELSE One - DivRound(MulMag(t, ExpSeries(t, k + 1)), k)

\* exp(-v) is below half a unit from here on
ExpCut == 10 * One

\* exp(-1)
ExpMinusOne == ExpSeries(One, 1)

\* exp(-v) for v >= 0: exp(-1) per whole unit times the series of the rest
RECURSIVE ExpNeg(_)
ExpNeg(v) ==
    IF v >= ExpCut THEN 0
    ELSE IF v <= One THEN ExpSeries(v, 1)
    ELSE MulMag(ExpNeg(v - One), ExpMinusOne)

\* f32::exp, for the arguments the program gives it (x <= 0)
ExpFx(x) == ExpNeg(-x)

\* the argument (9.011) from which f32 tanh is exactly 1.0
TanhSat == (9011 * One) \div 1000

\* tanh(x) for x >= 0: (1 - e^-2x) / (1 + e^-2x)
TanhMag(x) ==
    IF x >= TanhSat THEN One
    ELSE LET e == ExpNeg(2 * x)
             t == DivRound((One - e) * One, One + e)
         IN  IF t >= One THEN One - 1 ELSE t

\* f32::tanh
TanhFx(x) == Sgn(x) * TanhMag(Abs(x))


(***************************************************************************)
(* Bounds and input sets                                                   *)
(***************************************************************************)
\* samples processed in one behaviour
MaxSamples == 5

\* calls of initialize plus parameter writes in one behaviour
MaxHostEvents == 3

\* raw samples the host delivers
SampleSet == {0, One}

\* values of "Cutoff" within its FloatRange (20 to 20000), Hz
CutoffSet == {1000, 20000}

\* FloatRange::Linear {min: 0.0, max: 1.0}: its ends
UnitSet == {0, One}

\* sample rate the host runs the stream at, Hz
SampleRates == {48000}

\* main_input_channels of AUDIO_IO_LAYOUTS
Layouts == {2, 1}

(***************************************************************************)
(* Coefficient stage                                                       *)
(***************************************************************************)
\* std::f32::consts::TAU
TAU == (62832 * One) \div 10000

\* 0.026
Vt == (26 * One) \div 1000

two_vt == Mul(2 * One, Vt)

two_vt_reciprocal == DivRound(One * One, two_vt)

\* line 184: 1.0 - (-TAU * (cutoff * inverse_sample_rate)).exp()
GCoef(cutoff, sr) == One - ExpFx(-Mul(TAU, DivRound(cutoff * One, sr)))

\* lines 158-161: 1.0 - (-TAU * cutoff / sample_rate).exp()
InitG(cutoff, sr) == One - ExpFx(-DivRound(TAU * cutoff, sr))

\* lines 173-187: the locals of one frame
FrameLocals(p, sr) ==
    [poles     |-> p.poles,
     cutoff    |-> p.cutoff,
     drive     |-> One + Mul(p.drive, 14 * One),
     resonance |-> Mul(p.resonance, 4 * One),
     output    |-> One + Mul(p.output, 14 * One),
     two_vt_g  |-> Mul(two_vt, GCoef(p.cutoff, sr))]

(***************************************************************************)
(* Ladder stages.  f is a filter state [po, w], c the locals of the frame. *)
(***************************************************************************)
\* line 191 with the drive added to the sample instead of scaling it
DriveInAdds(sample, c) == TanhFx(sample + c.drive)

\* line 191
DriveIn(sample, c) == TanhFx(Mul(sample, c.drive))

\* lines 194-200 with the feedback added instead of subtracted
Stage1FourPoleAddsFeedback(f, inp, c) ==
    LET tanh_stage_1 ==
            TanhFx(inp + Mul(Mul(Mul(4 * One, c.resonance), f.po[4]),
                             two_vt_reciprocal))
        stage_1 == f.po[1] + Mul(c.two_vt_g, tanh_stage_1 - f.w[1])
    IN  [po |-> [f.po EXCEPT ![1] = stage_1],
         w  |-> [f.w EXCEPT ![1] = TanhFx(Mul(stage_1, two_vt_reciprocal))]]

\* lines 194-200
Stage1FourPole(f, inp, c) ==
    LET tanh_stage_1 ==
            TanhFx(inp - Mul(Mul(Mul(4 * One, c.resonance), f.po[4]),
                             two_vt_reciprocal))
        stage_1 == f.po[1] + Mul(c.two_vt_g, tanh_stage_1 - f.w[1])
    IN  [po |-> [f.po EXCEPT ![1] = stage_1],
         w  |-> [f.w EXCEPT ![1] = TanhFx(Mul(stage_1, two_vt_reciprocal))]]

\* lines 202-206
Stage2FourPole(f, c) ==
    LET stage_2 == f.po[2] + Mul(c.two_vt_g, f.w[1] - f.w[2])
    IN  [po |-> [f.po EXCEPT ![2] = stage_2],
         w  |-> [f.w EXCEPT ![2] = TanhFx(Mul(stage_2, two_vt_reciprocal))]]

\* lines 208-212 with stage 3 fed from the saturated value of stage 1
Stage3FourPoleReadsStage1(f, c) ==
    LET stage_3 == f.po[3] + Mul(c.two_vt_g, f.w[1] - f.w[3])
    IN  [po |-> [f.po EXCEPT ![3] = stage_3],
         w  |-> [f.w EXCEPT ![3] = TanhFx(Mul(stage_3, two_vt_reciprocal))]]

\* lines 208-212
Stage3FourPole(f, c) ==
    LET stage_3 == f.po[3] + Mul(c.two_vt_g, f.w[2] - f.w[3])
    IN  [po |-> [f.po EXCEPT ![3] = stage_3],
         w  |-> [f.w EXCEPT ![3] = TanhFx(Mul(stage_3, two_vt_reciprocal))]]

\* lines 214-219 with the sample written without its final tanh
Stage4FourPoleUnsaturated(f, c) ==
    LET stage_4 == f.po[4] + Mul(c.two_vt_g,
                       f.w[3] - TanhFx(Mul(f.po[4], two_vt_reciprocal)))
    IN  [po  |-> [f.po EXCEPT ![4] = stage_4],
         w   |-> f.w,
         out |-> Mul(Mul(c.output, stage_4), c.drive)]

\* lines 214-219: the new state and the sample written
Stage4FourPole(f, c) ==
    LET stage_4 == f.po[4] + Mul(c.two_vt_g,
                       f.w[3] - TanhFx(Mul(f.po[4], two_vt_reciprocal)))
    IN  [po  |-> [f.po EXCEPT ![4] = stage_4],
         w   |-> f.w,
         out |-> TanhFx(Mul(Mul(c.output, stage_4), c.drive))]

\* lines 221-226 with the feedback tapped from the fourth stage
Stage1TwoPoleTapsLast(f, inp, c) ==
    LET tanh_stage_1 ==
            TanhFx(inp - Mul(Mul(Mul(4 * One, c.resonance), f.po[4]),
                             two_vt_reciprocal))
        stage_1 == f.po[1] + Mul(c.two_vt_g, tanh_stage_1 - f.w[1])
    IN  [po |-> [f.po EXCEPT ![1] = stage_1],
         w  |-> [f.w EXCEPT ![1] = TanhFx(Mul(stage_1, two_vt_reciprocal))]]

\* lines 221-226
Stage1TwoPole(f, inp, c) ==
    LET tanh_stage_1 ==
            TanhFx(inp - Mul(Mul(Mul(4 * One, c.resonance), f.po[2]),
                             two_vt_reciprocal))
        stage_1 == f.po[1] + Mul(c.two_vt_g, tanh_stage_1 - f.w[1])
    IN  [po |-> [f.po EXCEPT ![1] = stage_1],
         w  |-> [f.w EXCEPT ![1] = TanhFx(Mul(stage_1, two_vt_reciprocal))]]

\* lines 228-233 with the saturated value of stage 2 cached as the 4-pole
\* path caches it
Stage2TwoPoleCaches(f, c) ==
    LET stage_2 == f.po[2] + Mul(c.two_vt_g,
                       f.w[1] - TanhFx(Mul(f.po[2], two_vt_reciprocal)))
    IN  [po  |-> [f.po EXCEPT ![2] = stage_2],
         w   |-> [f.w EXCEPT ![2] = TanhFx(Mul(stage_2, two_vt_reciprocal))],
         out |-> TanhFx(Mul(c.output, stage_2))]

\* lines 228-233: the new state and the sample written
Stage2TwoPole(f, c) ==
    LET stage_2 == f.po[2] + Mul(c.two_vt_g,
                       f.w[1] - TanhFx(Mul(f.po[2], two_vt_reciprocal)))
    IN  [po  |-> [f.po EXCEPT ![2] = stage_2],
         w   |-> f.w,
         out |-> TanhFx(Mul(c.output, stage_2))]

(***************************************************************************)
(* State                                                                   *)
(***************************************************************************)
\* vec![0.0; 4], vec![0.0; 3]
ZeroState == [po |-> <<0, 0, 0, 0>>, w |-> <<0, 0, 0>>]

\* the filter state held by the plugin instance
Self == [po |-> prev_outputs, w |-> prev_w]

PoW(r) == [po |-> r.po, w |-> r.w]

\* FilterParams::default()
DefaultParams ==
    [cutoff |-> 20000, resonance |-> 0, drive |-> 0, output |-> 0,
     poles |-> TRUE]

\* the entries only the 4-pole path writes
Upper(f) == <<f.po[3], f.po[4], f.w[2], f.w[3]>>

\* MoogLadderFilter::default()
Init ==
    /\ params = DefaultParams
    /\ prev_outputs = ZeroState.po
    /\ prev_w = ZeroState.w
    /\ g = 0
    /\ phase = "constructed"
    /\ channels = 2
    /\ sample_rate = 48000
    /\ pc = "idle"
    /\ ch = 1
    /\ loc = FrameLocals(DefaultParams, 48000)
    /\ buf = <<>>
    /\ input = 0
    /\ pre = ZeroState
    /\ raw = 0
    /\ n = 0
    /\ ev = 0
    /\ silent = TRUE
    /\ reinit = FALSE
    /\ twin = ZeroState
    /\ twin_buf = <<>>
    /\ iso = TRUE
    /\ last4 = Upper(ZeroState)
    /\ stale = FALSE
    /\ ind = [c \in 1..2 |-> ZeroState]
    /\ ind_buf = <<>>

(***************************************************************************)
(* Operations                                                              *)
(***************************************************************************)
\* the host writes one parameter, between two frames
HostSetParam ==
    /\ pc = "idle"
    /\ ev < MaxHostEvents
    /\ \/ \E v \in CutoffSet \ {params.cutoff} :
              params' = [params EXCEPT !.cutoff = v]
       \/ \E v \in UnitSet \ {params.resonance} :
              params' = [params EXCEPT !.resonance = v]
       \/ \E v \in UnitSet \ {params.drive} :
              params' = [params EXCEPT !.drive = v]
       \/ \E v \in UnitSet \ {params.output} :
              params' = [params EXCEPT !.output = v]
       \/ params' = [params EXCEPT !.poles = ~params.poles]
    /\ ev' = ev + 1
    /\ UNCHANGED <<prev_outputs, prev_w, g, phase, channels, sample_rate, pc,
                   ch, loc, buf, input, pre, raw, n, silent, reinit, twin,
                   twin_buf, iso, last4, stale, ind, ind_buf>>

\* Plugin::initialize, lines 152-163
Initialize ==
    /\ phase # "active"
    /\ pc = "idle"
    /\ ev < MaxHostEvents
    /\ \E c \in Layouts, sr \in SampleRates :
           /\ channels' = c
           /\ sample_rate' = sr
           /\ g' = InitG(params.cutoff, sr)
    /\ phase' = "active"
    /\ reinit' = (phase = "inactive")
    /\ ev' = ev + 1
    /\ UNCHANGED <<params, prev_outputs, prev_w, pc, ch, loc, buf, input, pre,
                   raw, n, silent, twin, twin_buf, iso, last4, stale, ind,
                   ind_buf>>

\* Plugin::deactivate, line 241
Deactivate ==
    /\ phase = "active"
    /\ pc = "idle"
    /\ phase' = "inactive"
    /\ UNCHANGED <<params, prev_outputs, prev_w, g, channels, sample_rate, pc,
                   ch, loc, buf, input, pre, raw, n, ev, silent, reinit, twin,
                   twin_buf, iso, last4, stale, ind, ind_buf>>

\* lines 171-187 with g left as initialize computed it
BeginFrameKeepsGain ==
    /\ phase = "active"
    /\ pc = "idle"
    /\ n + channels <= MaxSamples
    /\ \E smp \in [1..channels -> SampleSet] :
           /\ buf' = smp
           /\ twin_buf' = smp
           /\ ind_buf' = smp
    /\ loc' = [FrameLocals(params, sample_rate) EXCEPT
                   !.two_vt_g = Mul(two_vt, g)]
    /\ ch' = 1
    /\ pc' = "s1"
    /\ UNCHANGED <<params, prev_outputs, prev_w, g, phase, channels,
                   sample_rate, input, pre, raw, n, ev, silent, reinit, twin,
                   iso, last4, stale, ind>>

\* process, lines 171-187: one frame of the buffer is taken up
BeginFrame ==
    /\ phase = "active"
    /\ pc = "idle"
    /\ n + channels <= MaxSamples
    /\ \E smp \in [1..channels -> SampleSet] :
           /\ buf' = smp
           /\ twin_buf' = smp
           /\ ind_buf' = smp
    /\ loc' = FrameLocals(params, sample_rate)
    /\ g' = GCoef(params.cutoff, sample_rate)
    /\ ch' = 1
    /\ pc' = "s1"
    /\ UNCHANGED <<params, prev_outputs, prev_w, phase, channels, sample_rate,
                   input, pre, raw, n, ev, silent, reinit, twin, iso, last4,
                   stale, ind>>

\* process, what follows the last stage of a sample: the next channel of
\* the frame, or the end of the frame
NextSample ==
    IF ch < channels THEN ch' = ch + 1 /\ pc' = "s1"
    ELSE ch' = ch /\ pc' = "idle"

\* process, lines 191-200 and 221-226: the input and the first stage
StageOne ==
    /\ pc = "s1"
    /\ LET inp == DriveIn(buf[ch], loc)
           S1(f) == IF loc.poles THEN Stage1FourPole(f, inp, loc)
                    ELSE Stage1TwoPole(f, inp, loc)
           r == S1(Self)
       IN  /\ input' = inp
           /\ prev_outputs' = r.po
           /\ prev_w' = r.w
           /\ twin' = S1(twin)
           /\ ind' = [ind EXCEPT ![ch] = S1(ind[ch])]
    /\ pre' = Self
    /\ raw' = buf[ch]
    /\ n' = n + 1
    /\ silent' = (silent /\ buf[ch] = 0)
    /\ reinit' = FALSE
    /\ iso' = (iso /\ ~loc.poles)
    /\ pc' = "s2"
    /\ UNCHANGED <<params, g, phase, channels, sample_rate, ch, loc, buf, ev,
                   twin_buf, last4, stale, ind_buf>>

\* process, lines 202-206
StageTwoFourPole ==
    /\ pc = "s2"
    /\ loc.poles
    /\ LET r == Stage2FourPole(Self, loc)
       IN  prev_outputs' = r.po /\ prev_w' = r.w
    /\ twin' = Stage2FourPole(twin, loc)
    /\ ind' = [ind EXCEPT ![ch] = Stage2FourPole(ind[ch], loc)]
    /\ pc' = "s3"
    /\ UNCHANGED <<params, g, phase, channels, sample_rate, ch, loc, buf,
                   input, pre, raw, n, ev, silent, reinit, twin_buf, iso,
                   last4, stale, ind_buf>>

\* process, lines 208-212
StageThree ==
    /\ pc = "s3"
    /\ LET r == Stage3FourPole(Self, loc)
       IN  prev_outputs' = r.po /\ prev_w' = r.w
    /\ twin' = Stage3FourPole(twin, loc)
    /\ ind' = [ind EXCEPT ![ch] = Stage3FourPole(ind[ch], loc)]
    /\ pc' = "s4"
    /\ UNCHANGED <<params, g, phase, channels, sample_rate, ch, loc, buf,
                   input, pre, raw, n, ev, silent, reinit, twin_buf, iso,
                   last4, stale, ind_buf>>

\* process, lines 214-219
StageFour ==
    /\ pc = "s4"
    /\ LET r == Stage4FourPole(Self, loc)
           t == Stage4FourPole(twin, loc)
           i == Stage4FourPole(ind[ch], loc)
       IN  /\ prev_outputs' = r.po
           /\ prev_w' = r.w
           /\ buf' = [buf EXCEPT ![ch] = r.out]
           /\ twin' = PoW(t)
           /\ twin_buf' = [twin_buf EXCEPT ![ch] = t.out]
           /\ ind' = [ind EXCEPT ![ch] = PoW(i)]
           /\ ind_buf' = [ind_buf EXCEPT ![ch] = i.out]
           /\ last4' = Upper(r)
    /\ stale' = FALSE
    /\ NextSample
    /\ UNCHANGED <<params, g, phase, channels, sample_rate, loc, input, pre,
                   raw, n, ev, silent, reinit, iso>>

\* process, lines 228-233
StageTwoTwoPole ==
    /\ pc = "s2"
    /\ ~loc.poles
    /\ LET r == Stage2TwoPole(Self, loc)
           t == Stage2TwoPole(twin, loc)
           i == Stage2TwoPole(ind[ch], loc)
       IN  /\ prev_outputs' = r.po
           /\ prev_w' = r.w
           /\ buf' = [buf EXCEPT ![ch] = r.out]
           /\ twin' = PoW(t)
           /\ twin_buf' = [twin_buf EXCEPT ![ch] = t.out]
           /\ ind' = [ind EXCEPT ![ch] = PoW(i)]
           /\ ind_buf' = [ind_buf EXCEPT ![ch] = i.out]
    /\ stale' = TRUE
    /\ NextSample
    /\ UNCHANGED <<params, g, phase, channels, sample_rate, loc, input, pre,
                   raw, n, ev, silent, reinit, iso, last4>>

Next ==
    \/ HostSetParam
    \/ Initialize
    \/ Deactivate
    \/ BeginFrame
    \/ StageOne
    \/ StageTwoFourPole
    \/ StageThree
    \/ StageFour
    \/ StageTwoTwoPole

Spec == Init /\ [][Next]_vars

(***************************************************************************)
(* A stream already running in 2-pole mode, and beside it a second filter  *)
(* instance that holds other values in the entries only the 4-pole path    *)
(* writes.                                                                 *)
(***************************************************************************)
\* values of prev_outputs[0], prev_outputs[1]
LowerSet == {<<0, 0>>, <<300, -200>>}

\* values of prev_outputs[2], prev_outputs[3], prev_w[1], prev_w[2]
UpperSet == {<<0, 0, 0, 0>>, <<400, 250, 6000, 7000>>,
             <<-350, 500, -9000, 2000>>}

StateOf(lo, up) ==
    [po |-> <<lo[1], lo[2], up[1], up[2]>>,
     w  |-> <<TanhFx(Mul(lo[1], two_vt_reciprocal)), up[3], up[4]>>]

IsoInit ==
    /\ \E r \in UnitSet :
           params = [DefaultParams EXCEPT !.poles = FALSE, !.resonance = r]
    /\ \E lo \in LowerSet, up \in UpperSet, up2 \in UpperSet :
           /\ up # up2
           /\ prev_outputs = StateOf(lo, up).po
           /\ prev_w = StateOf(lo, up).w
           /\ twin = StateOf(lo, up2)
    /\ g = GCoef(params.cutoff, 48000)
    /\ phase = "active"
    /\ channels = 1
    /\ sample_rate = 48000
    /\ pc = "idle"
    /\ ch = 1
    /\ loc = FrameLocals(params, 48000)
    /\ buf = <<>>
    /\ input = 0
    /\ pre = Self
    /\ raw = 0
    /\ n = 0
    /\ ev = 2
    /\ silent = FALSE
    /\ reinit = FALSE
    /\ twin_buf = <<>>
    /\ iso = TRUE
    /\ last4 = Upper(Self)
    /\ stale = TRUE
    /\ ind = [c \in 1..2 |-> Self]
    /\ ind_buf = <<>>

SpecIso == IsoInit /\ [][Next]_vars

(***************************************************************************)
(* Properties                                                              *)
(***************************************************************************)
\* process has written a sample and nothing has run since but parameter
\* writes
JustWrote ==
    /\ n > 0
    /\ phase = "active"
    /\ ~reinit
    /\ (pc = "idle" \/ (pc = "s1" /\ ch > 1))

\* the channel of the sample written last
LastCh == IF pc = "idle" THEN ch ELSE ch - 1

\* the sample written last
LastOut == buf[LastCh]

\* the resonance feedback term of a tap value
Feedback(tap) ==
    Mul(Mul(Mul(4 * One, loc.resonance), tap), two_vt_reciprocal)

\* C1.  Topology isolation: as long as every sample was processed in
\* 2-pole mode, two instances that started with equal prev_outputs[0],
\* prev_outputs[1], prev_w[0] and different other entries, fed the same
\* samples under the same parameters, write the same samples and stay
\* equal in those three entries.
TopologyIsolation ==
    iso => /\ prev_outputs[1] = twin.po[1]
           /\ prev_outputs[2] = twin.po[2]
           /\ prev_w[1] = twin.w[1]
           /\ JustWrote => LastOut = twin_buf[LastCh]

TopologyIsolationWitness ==
    /\ iso
    /\ JustWrote
    /\ n >= 2
    /\ loc.resonance # 0
    /\ prev_outputs[4] # twin.po[4]
    /\ prev_outputs[3] # twin.po[3]
    /\ LastOut # 0

\* C2.  Reset: once the stream has been deactivated and activated again,
\* and before any further sample, the filter state is that of a fresh
\* instance.
ResetReturnsToZero == reinit => Self = ZeroState

\* C3.  Silence in, silence out: as long as every sample fed since
\* construction was zero, the state is all zero and every sample written
\* is zero, whatever the parameters and the topology.
SilenceInSilenceOut ==
    silent => /\ Self = ZeroState
              /\ JustWrote => LastOut = 0

SilenceWitness ==
    /\ silent
    /\ JustWrote
    /\ n >= 3
    /\ ~loc.poles
    /\ loc.resonance # 0

\* C4.  Channel independence: every sample written equals the one a
\* filter fed this channel's samples only would have written.
ChannelsIndependent == JustWrote => LastOut = ind_buf[LastCh]

\* the state values are finite: none leaves [-1, 1]
StateFinite ==
    /\ \A i \in 1..4 : Abs(prev_outputs[i]) <= One
    /\ \A i \in 1..3 : Abs(prev_w[i]) <= One

\* C5, as claimed.  Bounded output: every sample written lies strictly
\* inside (-1, 1) and every state value is finite.
OutputStrictlyInside ==
    /\ StateFinite
    /\ JustWrote => (-One < LastOut /\ LastOut < One)

\* C5, amended.  Bounded output: every sample written lies in [-1, 1],
\* ends included, and every state value is finite.
OutputBounded ==
    /\ StateFinite
    /\ JustWrote => (-One <= LastOut /\ LastOut <= One)

OutputBoundedWitness ==
    /\ JustWrote
    /\ loc.poles
    /\ LastOut = One
    /\ prev_outputs[4] < One

\* the recursion of C6 for one 4-pole step, from state f, raw sample x_in
\* and the gains of c, with the stage gain given
LadderRef(f, x_in, c, stageGain) ==
    LET thermalVoltageRecip == DivRound(One * One, 2 * Vt)
        x   == TanhFx(Mul(x_in, c.drive))
        fb  == Mul(Mul(Mul(4 * One, c.resonance), f.po[4]),
                   thermalVoltageRecip)
        so1 == f.po[1] + Mul(stageGain, TanhFx(x - fb) - f.w[1])
        ss1 == TanhFx(Mul(so1, thermalVoltageRecip))
        so2 == f.po[2] + Mul(stageGain, ss1 - f.w[2])
        ss2 == TanhFx(Mul(so2, thermalVoltageRecip))
        so3 == f.po[3] + Mul(stageGain, ss2 - f.w[3])
        ss3 == TanhFx(Mul(so3, thermalVoltageRecip))
        so4 == f.po[4] + Mul(stageGain,
                   ss3 - TanhFx(Mul(f.po[4], thermalVoltageRecip)))
    IN  [po  |-> <<so1, so2, so3, so4>>,
         w   |-> <<ss1, ss2, ss3>>,
         out |-> TanhFx(Mul(Mul(c.output, so4), c.drive))]

\* what one sample left behind
Result == [po |-> prev_outputs, w |-> prev_w, out |-> LastOut]

\* C6, as claimed.  One 4-pole step gives the state and the sample of the
\* recursion with stageGain = thermalVoltage * g, thermalVoltage = Vt.
FourPoleMatchesClaimed ==
    (JustWrote /\ loc.poles) => Result = LadderRef(pre, raw, loc, Mul(Vt, g))

\* C6, amended.  One 4-pole step gives the state and the sample of the
\* recursion with stageGain = 2 * Vt * g.
FourPoleMatchesRecursion ==
    (JustWrote /\ loc.poles) =>
        Result = LadderRef(pre, raw, loc, Mul(2 * Vt, g))

FourPoleWitness ==
    /\ JustWrote
    /\ loc.poles
    /\ n >= 2
    /\ loc.resonance # 0
    /\ loc.drive # One
    /\ pre.po[4] # 0
    /\ prev_outputs[4] # pre.po[4]
    /\ LastOut # 0

\* C7.  The 2-pole path mirrors the 4-pole path: the feedback tap is
\* prev_outputs[1] and the sample written is
\* tanh(outputGain * stageOutput[1] * driveGain).
TwoPoleMirrorsFourPole ==
    (JustWrote /\ ~loc.poles) =>
        /\ prev_outputs[1] = pre.po[1] + Mul(loc.two_vt_g,
               TanhFx(input - Feedback(pre.po[2])) - pre.w[1])
        /\ LastOut = TanhFx(Mul(Mul(loc.output, prev_outputs[2]), loc.drive))

\* what each stage has read and written by the time process stands at pc
StageReads ==
    /\ pc = "s2" =>
          /\ prev_outputs =
                 [pre.po EXCEPT ![1] = pre.po[1] + Mul(loc.two_vt_g,
                     TanhFx(input - Feedback(
                         pre.po[IF loc.poles THEN 4 ELSE 2])) - pre.w[1])]
          /\ prev_w = [pre.w EXCEPT
                 ![1] = TanhFx(Mul(prev_outputs[1], two_vt_reciprocal))]
    /\ pc = "s3" =>
          /\ prev_outputs[2] =
                 pre.po[2] + Mul(loc.two_vt_g, prev_w[1] - pre.w[2])
          /\ prev_w[1] = TanhFx(Mul(prev_outputs[1], two_vt_reciprocal))
          /\ prev_w[2] = TanhFx(Mul(prev_outputs[2], two_vt_reciprocal))
          /\ prev_outputs[3] = pre.po[3]
          /\ prev_outputs[4] = pre.po[4]
          /\ prev_w[3] = pre.w[3]
    /\ pc = "s4" =>
          /\ prev_outputs[3] =
                 pre.po[3] + Mul(loc.two_vt_g, prev_w[2] - pre.w[3])
          /\ prev_w[2] = TanhFx(Mul(prev_outputs[2], two_vt_reciprocal))
          /\ prev_w[3] = TanhFx(Mul(prev_outputs[3], two_vt_reciprocal))
          /\ prev_outputs[4] = pre.po[4]
    /\ (JustWrote /\ loc.poles) =>
          prev_outputs[4] = pre.po[4] + Mul(loc.two_vt_g,
              prev_w[3] - TanhFx(Mul(pre.po[4], two_vt_reciprocal)))
    /\ (JustWrote /\ ~loc.poles) =>
          prev_outputs[2] = pre.po[2] + Mul(loc.two_vt_g,
              prev_w[1] - TanhFx(Mul(pre.po[2], two_vt_reciprocal)))

\* the order of the positions of process
OrderStep ==
    pc' # pc =>
        \/ pc = "idle" /\ pc' = "s1"
        \/ pc = "s1" /\ pc' = "s2"
        \/ pc = "s2" /\ loc.poles /\ pc' = "s3"
        \/ pc = "s2" /\ ~loc.poles /\ pc' \in {"s1", "idle"}
        \/ pc = "s3" /\ pc' = "s4"
        \/ pc = "s4" /\ pc' \in {"s1", "idle"}

\* C8.  Causal fixed update order: the stages of a sample run in the order
\* 1, 2, 3, 4 (1, 2 in 2-pole mode); the feedback reads the last stage as
\* the sample before left it; stage i > 1 reads the saturated value stage
\* i-1 wrote in this sample and its own from before this sample; no stage
\* is written ahead of its turn.
CausalOrder == []StageReads /\ [][OrderStep]_vars

CausalOrderWitness ==
    /\ pc = "s4"
    /\ loc.resonance # 0
    /\ pre.po[4] # 0
    /\ pre.w[3] # 0
    /\ prev_outputs[3] # pre.po[3]
    /\ prev_w[2] # pre.w[2]

\* between two samples, and all through a 2-pole sample, the entries only
\* the 4-pole path writes are as the last 4-pole sample left them
UpperKept == (pc \in {"idle", "s1"} \/ ~loc.poles) => Upper(Self) = last4

\* a write of the pole parameter leaves the filter state alone
PoleWriteKeeps ==
    params'.poles # params.poles =>
        (prev_outputs' = prev_outputs /\ prev_w' = prev_w)

\* C9.  Topology switch keeps state: a write of the pole parameter changes
\* no filter state, a 2-pole sample leaves prev_outputs[2],
\* prev_outputs[3], prev_w[1] and prev_w[2] alone, and a 4-pole sample
\* that follows 2-pole samples starts from them as the last 4-pole sample
\* left them.
TopologySwitchKeepsState == []UpperKept /\ [][PoleWriteKeeps]_vars

TopologySwitchWitness ==
    /\ pc = "s2"
    /\ loc.poles
    /\ stale
    /\ pre.po[4] # 0
    /\ pre.po[2] # 0
    /\ Upper(pre) = last4

\* while a frame is processed g is the gain of the current cutoff and
\* sample rate, and the stage gain of the frame comes from it
GainOfFrame ==
    pc # "idle" =>
        /\ g = GCoef(params.cutoff, sample_rate)
        /\ loc.cutoff = params.cutoff
        /\ loc.two_vt_g = Mul(two_vt, g)

\* no step within a frame changes g or the locals of the frame
GainKept == pc # "idle" => (g' = g /\ loc' = loc)

\* C10.  Coefficient stability within a sample: g and the smoothed values
\* are computed once per frame, before its first stage update, from the
\* current cutoff and sample rate, and do not change while the stages of
\* the frame run for any channel.
CoefficientStable == []GainOfFrame /\ [][GainKept]_vars

CoefficientWitness ==
    /\ pc = "s4"
    /\ ch = 2
    /\ params.cutoff # DefaultParams.cutoff
    /\ loc.two_vt_g > 0
    /\ prev_outputs[1] # 0

=============================================================================
